---- MODULE Spec2Model ----
(***************************************************************************)
(* Model of the glob matching engine of rsconnect/models.py: GlobMatcher   *)
(* (one compiled pattern, two matching strategies) and GlobSet (a list of  *)
(* GlobMatcher objects, matched with any()).                               *)
(*                                                                         *)
(* A Python str is a sequence of one-character strings, so that split,     *)
(* startswith, endswith and slicing are computed character by character.   *)
(* A Python list index is 0-based; the element with Python index i is the  *)
(* element i + 1 of the TLA+ sequence.  An attribute that may be None, or  *)
(* a variable that may hold no object, is a sequence of length 0 or 1.     *)
(***************************************************************************)
EXTENDS Integers, Sequences, FiniteSets, TLC

VARIABLES pc, cls, pattern, patterns, matcher, globset, error, path, result

vars == <<pc, cls, pattern, patterns, matcher, globset, error, path, result>>

----------------------------------------------------------------------------
(* Bounds of the inputs *)

\* Largest number of segments of a pattern given to GlobMatcher.
MaxPatSegs == 3

\* Largest number of segments of a path given to matches.
MaxPathSegs == 3

\* Largest number of patterns in the list given to GlobSet.
MaxPatterns == 2

\* os.path.sep (POSIX)
Sep == "/"

\* The segments patterns are built from: literals, the two one-segment
\* wildcards and the '**' marker.
PatSegs == { <<"a">>, <<"*">>, <<"?">>, <<"*", "*">> }

\* The segments well-formed paths are built from.
PathSegs == { <<"a">>, <<"b">> }

\* Paths outside that shape: the empty path, a leading, a trailing and a
\* doubled separator, and a segment of two characters.
OddPaths ==
    { <<>>,
      <<"/", "a">>,
      <<"a", "/">>,
      <<"a", "/", "/", "a">>,
      <<"a", "b">>,
      <<"a", "b", "/", "a">> }

RECURSIVE Join(_)
\* os.path.sep.join(segs), for a non-empty list of segments
Join(segs) ==
    IF Len(segs) = 1 THEN segs[1]
    ELSE segs[1] \o <<Sep>> \o Join(Tail(segs))

SegLists(S, n) == UNION { [1..k -> S] : k \in 1..n }

Patterns == { Join(sl) : sl \in SegLists(PatSegs, MaxPatSegs) }

Paths == { Join(sl) : sl \in SegLists(PathSegs, MaxPathSegs) } \cup OddPaths

\* The patterns the lists given to GlobSet are drawn from: the prefix form,
\* the general form with and without '**', and one that does not compile.
SetPool ==
    { <<"*">>,
      <<"a", "/", "*", "*", "/", "*">>,
      <<"*", "*", "/", "a">>,
      <<"*", "*", "/", "*", "*">> }

PatternLists == UNION { [1..k -> SetPool] : k \in 0..MaxPatterns }

----------------------------------------------------------------------------
(* Python str and list operations *)

\* s.endswith(suffix)
endswith(s, suffix) ==
    /\ Len(s) >= Len(suffix)
    /\ SubSeq(s, Len(s) - Len(suffix) + 1, Len(s)) = suffix

\* s.startswith(prefix)
startswith(s, prefix) ==
    /\ Len(s) >= Len(prefix)
    /\ SubSeq(s, 1, Len(prefix)) = prefix

\* s[:-k]
DropLast(s, k) == IF Len(s) > k THEN SubSeq(s, 1, Len(s) - k) ELSE <<>>

RECURSIVE SplitLoop(_, _, _)
SplitLoop(s, cur, acc) ==
    IF s = <<>> THEN Append(acc, cur)
    ELSE IF Head(s) = Sep THEN SplitLoop(Tail(s), <<>>, Append(acc, cur))
    ELSE SplitLoop(Tail(s), Append(cur, Head(s)), acc)

\* s.split(os.path.sep): never empty, "" splits into [""]
split(s) == SplitLoop(s, <<>>, <<>>)

\* A value returned, or an exception raised, by a call.
Return(v) == [exc |-> "", value |-> v]

Raise(e) == [exc |-> e, value |-> FALSE]

\* list[i] is defined for -len <= i < len and raises IndexError otherwise
IndexInRange(list, i) == -Len(list) <= i /\ i < Len(list)

\* list[i] for an index in range (a negative index counts from the end)
GetItem(list, i) == IF i >= 0 THEN list[i + 1] ELSE list[Len(list) + i + 1]

----------------------------------------------------------------------------
(* fnmatch.translate and re.match *)

Tok(op, arg) == [op |-> op, arg |-> arg]

RECURSIVE ClassEnd(_, _)
\* while j < n and pat[j] != ']': j = j + 1   (j is a 1-based position)
ClassEnd(pat, j) ==
    IF j <= Len(pat) /\ pat[j] # "]" THEN ClassEnd(pat, j + 1) ELSE j

\* The position where the scan for the ']' closing a '[' at i - 1 starts:
\* a leading '!' and a leading ']' belong to the class.
ClassStart(pat, i) ==
    LET j1 == IF i <= Len(pat) /\ pat[i] = "!" THEN i + 1 ELSE i
    IN  IF j1 <= Len(pat) /\ pat[j1] = "]" THEN j1 + 1 ELSE j1

RECURSIVE TranslateFrom(_, _, _)
\* The loop of fnmatch.translate over the characters of pat from position i:
\* '*' becomes '.*' (a run of '*' is one '.*'), '?' becomes '.', a '[' with
\* no closing ']' is the literal '[', '[...]' is a character class and any
\* other character is itself.
TranslateFrom(pat, i, res) ==
    IF i > Len(pat) THEN res
    ELSE LET c == pat[i] IN
         IF c = "*" THEN
             IF res # <<>> /\ res[Len(res)].op = "star"
             THEN TranslateFrom(pat, i + 1, res)
             ELSE TranslateFrom(pat, i + 1, Append(res, Tok("star", <<>>)))
         ELSE IF c = "?" THEN
             TranslateFrom(pat, i + 1, Append(res, Tok("any", <<>>)))
         ELSE IF c = "[" THEN
             LET j == ClassEnd(pat, ClassStart(pat, i + 1)) IN
             IF j > Len(pat)
             THEN TranslateFrom(pat, i + 1, Append(res, Tok("lit", <<"[">>)))
             ELSE LET stuff == SubSeq(pat, i + 1, j - 1) IN
                  IF stuff[1] = "!"
                  THEN TranslateFrom(pat, j + 1,
                                     Append(res, Tok("nset", Tail(stuff))))
                  ELSE TranslateFrom(pat, j + 1, Append(res, Tok("set", stuff)))
         ELSE TranslateFrom(pat, i + 1, Append(res, Tok("lit", <<c>>)))

\* re.compile(r"\A" + fnmatch.translate(name)): the compiled expression,
\* anchored at both ends of the string it is matched against
translate(name) == TranslateFrom(name, 1, <<>>)

InChars(c, chars) == \E k \in 1..Len(chars) : chars[k] = c

RECURSIVE ReMatch(_, _)
\* regex.match(s) is not None
ReMatch(toks, s) ==
    IF toks = <<>> THEN s = <<>>
    ELSE LET t == Head(toks) IN
         IF t.op = "star"
         THEN ReMatch(Tail(toks), s) \/ (s # <<>> /\ ReMatch(toks, Tail(s)))
         ELSE /\ s # <<>>
              /\ CASE t.op = "any" -> TRUE
                   [] t.op = "lit" -> Head(s) = t.arg[1]
                   [] t.op = "set" -> InChars(Head(s), t.arg)
                   [] t.op = "nset" -> ~InChars(Head(s), t.arg)
              /\ ReMatch(Tail(toks), Tail(s))

----------------------------------------------------------------------------
(* GlobMatcher *)

\* ValueError('Only one occurrence of the "**" pattern is allowed.')
OnlyOneMessage ==
    <<"O", "n", "l", "y", " ", "o", "n", "e", " ", "o", "c", "c", "u", "r",
      "r", "e", "n", "c", "e", " ", "o", "f", " ", "t", "h", "e", " ", "\"",
      "*", "*", "\"", " ", "p", "a", "t", "t", "e", "r", "n", " ", "i", "s",
      " ", "a", "l", "l", "o", "w", "e", "d", ".">>

ValueError == [type |-> "ValueError", args |-> <<OnlyOneMessage>>]

\* any(ch in name for ch in "*?[")
HasWildcardChar(name) == \E k \in 1..Len(name) : name[k] \in {"*", "?", "["}

\* An entry of the parts list: a string, or a compiled regular expression.
StrPart(name) == [kind |-> "str", str |-> name, re |-> <<>>]

RePart(name) == [kind |-> "re", str |-> <<>>, re |-> translate(name)]

RECURSIVE ToPartsLoop(_, _, _)
\* for index, name in enumerate(parts): index is the 0-based index of the
\* next entry, dwi is depth_wildcard_index (<<>> for None)
ToPartsLoop(parts, index, dwi) ==
    IF index >= Len(parts)
    THEN [raised |-> FALSE, parts |-> parts, wildcard_index |-> dwi]
    ELSE LET name == parts[index + 1].str IN
         IF name = <<"*", "*">> THEN
             IF dwi # <<>>
             THEN [raised |-> TRUE, parts |-> <<>>, wildcard_index |-> <<>>]
             ELSE ToPartsLoop(parts, index + 1, <<index>>)
         ELSE IF HasWildcardChar(name)
         THEN ToPartsLoop([parts EXCEPT ![index + 1] = RePart(name)],
                          index + 1, dwi)
         ELSE ToPartsLoop(parts, index + 1, dwi)

\* GlobMatcher._to_parts_list(pattern)
_to_parts_list(pat) ==
    LET names == split(pat)
    IN  ToPartsLoop([k \in 1..Len(names) |-> StrPart(names[k])], 0, <<>>)

\* PrefixOf with the slice one character longer: the prefix loses the
\* trailing separator the comment in the constructor asks for.
PrefixOf_NoSeparator(pat) == DropLast(pat, 5)

\* pattern[:-4] of a pattern that ends with "/**/*"
PrefixOf(pat) == DropLast(pat, 4)

\* GlobMatcher(pattern): the new object, or the exception raised.  An
\* attribute the constructor does not set is the empty sequence.
GlobMatcher__init__(pat) ==
    IF endswith(pat, <<"/", "*", "*", "/", "*">>)
    THEN [raised |-> FALSE,
          obj |-> [matches |-> "_match_with_starts_with",
                   _pattern |-> PrefixOf(pat),
                   _pattern_parts |-> <<>>,
                   _wildcard_index |-> <<>>]]
    ELSE LET r == _to_parts_list(pat) IN
         IF r.raised
         THEN [raised |-> TRUE,
               obj |-> [matches |-> "", _pattern |-> <<>>,
                        _pattern_parts |-> <<>>, _wildcard_index |-> <<>>]]
         ELSE [raised |-> FALSE,
               obj |-> [matches |-> "_match_with_list_parts",
                        _pattern |-> <<>>,
                        _pattern_parts |-> r.parts,
                        _wildcard_index |-> r.wildcard_index]]

\* GlobMatcher._match_with_starts_with(path)
_match_with_starts_with(self, p) == Return(startswith(p, self._pattern))

\* items_match without its first test, i2 >= len(parts)
items_match_Unguarded(self, parts, i1, i2) ==
    IF ~IndexInRange(self._pattern_parts, i1) \/ ~IndexInRange(parts, i2)
    THEN Raise("IndexError")
    ELSE LET pp == GetItem(self._pattern_parts, i1) IN
         IF pp.kind = "str"
         THEN Return(pp.str = GetItem(parts, i2))
         ELSE Return(ReMatch(pp.re, GetItem(parts, i2)))

\* items_match(i1, i2) of _match_with_list_parts
items_match(self, parts, i1, i2) ==
    IF i2 >= Len(parts) THEN Return(FALSE)
    ELSE IF ~IndexInRange(self._pattern_parts, i1) \/ ~IndexInRange(parts, i2)
    THEN Raise("IndexError")
    ELSE LET pp == GetItem(self._pattern_parts, i1) IN
         IF pp.kind = "str"
         THEN Return(pp.str = GetItem(parts, i2))
         ELSE Return(ReMatch(pp.re, GetItem(parts, i2)))

RECURSIVE TopDown(_, _, _, _)
\* for index in range(wildcard_index): <<>> when the loop runs to its end,
\* else the value the function returns from inside the loop
TopDown(self, parts, index, wildcard_index) ==
    IF index >= wildcard_index THEN <<>>
    ELSE LET m == items_match(self, parts, index, index) IN
         IF m.exc # "" THEN <<m>>
         ELSE IF ~m.value THEN <<Return(FALSE)>>
         ELSE TopDown(self, parts, index + 1, wildcard_index)

RECURSIVE BottomUp(_, _, _, _, _)
\* while pattern_index > wildcard_index and part_index >= 0, and the return
\* that follows the loop
BottomUp(self, parts, pattern_index, part_index, wildcard_index) ==
    IF pattern_index > wildcard_index /\ part_index >= 0
    THEN LET m == items_match(self, parts, pattern_index, part_index) IN
         IF m.exc # "" THEN m
         ELSE IF ~m.value THEN Return(FALSE)
         ELSE BottomUp(self, parts, pattern_index - 1, part_index - 1,
                       wildcard_index)
    ELSE Return(pattern_index = wildcard_index)

\* _match_with_list_parts that returns True after the top-down loop of a
\* pattern without '**', whatever the number of parts of the path
_match_with_list_parts_NoLength(self, p) ==
    LET parts == split(p)
        wildcard_index ==
            IF self._wildcard_index = <<>> THEN Len(self._pattern_parts)
            ELSE self._wildcard_index[1]
        top == TopDown(self, parts, 0, wildcard_index)
    IN  IF top # <<>> THEN top[1]
        ELSE IF self._wildcard_index = <<>>
        THEN Return(TRUE)
        ELSE BottomUp(self, parts, Len(self._pattern_parts) - 1,
                      Len(parts) - 1, wildcard_index)

\* GlobMatcher._match_with_list_parts(path)
_match_with_list_parts(self, p) ==
    LET parts == split(p)
        wildcard_index ==
            IF self._wildcard_index = <<>> THEN Len(self._pattern_parts)
            ELSE self._wildcard_index[1]
        top == TopDown(self, parts, 0, wildcard_index)
    IN  IF top # <<>> THEN top[1]
        ELSE IF self._wildcard_index = <<>>
        THEN Return(Len(self._pattern_parts) = Len(parts))
        ELSE BottomUp(self, parts, Len(self._pattern_parts) - 1,
                      Len(parts) - 1, wildcard_index)

\* matcher.matches(path): the bound method the constructor selected
GlobMatcher_matches(self, p) ==
    IF self.matches = "_match_with_starts_with"
    THEN _match_with_starts_with(self, p)
    ELSE _match_with_list_parts(self, p)

----------------------------------------------------------------------------
(* GlobSet *)

RECURSIVE CompileAll(_, _, _)
\* [GlobMatcher(pattern) for pattern in patterns]: the first constructor
\* that raises ends the comprehension
CompileAll(pats, k, acc) ==
    IF k > Len(pats) THEN [raised |-> FALSE, obj |-> [_matchers |-> acc]]
    ELSE LET r == GlobMatcher__init__(pats[k]) IN
         IF r.raised THEN [raised |-> TRUE, obj |-> [_matchers |-> <<>>]]
         ELSE CompileAll(pats, k + 1, Append(acc, r.obj))

RECURSIVE CompileValid(_, _, _)
CompileValid(pats, k, acc) ==
    IF k > Len(pats) THEN [raised |-> FALSE, obj |-> [_matchers |-> acc]]
    ELSE LET r == GlobMatcher__init__(pats[k]) IN
         IF r.raised THEN CompileValid(pats, k + 1, acc)
         ELSE CompileValid(pats, k + 1, Append(acc, r.obj))

\* GlobSet(patterns) that swallows the exception of a pattern that does not
\* compile and keeps the matchers of the others
GlobSet__init__Swallow(pats) == CompileValid(pats, 1, <<>>)

\* GlobSet(patterns)
GlobSet__init__(pats) == CompileAll(pats, 1, <<>>)

RECURSIVE AnyMatches(_, _, _)
\* any(matcher.matches(path) for matcher in self._matchers)
AnyMatches(matchers, k, p) ==
    IF k > Len(matchers) THEN Return(FALSE)
    ELSE LET m == GlobMatcher_matches(matchers[k], p) IN
         IF m.exc # "" THEN m
         ELSE IF m.value THEN Return(TRUE)
         ELSE AnyMatches(matchers, k + 1, p)

\* GlobSet.matches that asks the first matcher only
GlobSet_matches_FirstOnly(self, p) ==
    IF self._matchers = <<>> THEN Return(FALSE)
    ELSE GlobMatcher_matches(self._matchers[1], p)

\* GlobSet.matches(path)
GlobSet_matches(self, p) == AnyMatches(self._matchers, 1, p)

----------------------------------------------------------------------------
(* The program: one object is constructed, then queried any number of times *)

Init ==
    /\ pc = "start"
    /\ cls = ""
    /\ pattern = <<>>
    /\ patterns = <<>>
    /\ matcher = <<>>
    /\ globset = <<>>
    /\ error = <<>>
    /\ path = <<>>
    /\ result = <<>>

\* matcher = GlobMatcher(pat)
NewGlobMatcher(pat) ==
    /\ pc = "start"
    /\ LET r == GlobMatcher__init__(pat) IN
        /\ pc' = IF r.raised THEN "failed" ELSE "ready"
        /\ matcher' = IF r.raised THEN <<>> ELSE <<r.obj>>
        /\ error' = IF r.raised THEN <<ValueError>> ELSE <<>>
    /\ cls' = "GlobMatcher"
    /\ pattern' = pat
    /\ UNCHANGED <<patterns, globset, path, result>>

\* globset = GlobSet(pats)
NewGlobSet(pats) ==
    /\ pc = "start"
    /\ LET r == GlobSet__init__(pats) IN
        /\ pc' = IF r.raised THEN "failed" ELSE "ready"
        /\ globset' = IF r.raised THEN <<>> ELSE <<r.obj>>
        /\ error' = IF r.raised THEN <<ValueError>> ELSE <<>>
    /\ cls' = "GlobSet"
    /\ patterns' = pats
    /\ UNCHANGED <<pattern, matcher, path, result>>

\* matches that consumes the parts list of the matcher it is called on
MatcherMatches_Consuming(p) ==
    /\ pc = "ready"
    /\ cls = "GlobMatcher"
    /\ path' = p
    /\ result' = <<GlobMatcher_matches(matcher[1], p)>>
    /\ matcher' = <<[matcher[1] EXCEPT !._pattern_parts = <<>>]>>
    /\ UNCHANGED <<pc, cls, pattern, patterns, globset, error>>

\* result = matcher.matches(p)
MatcherMatches(p) ==
    /\ pc = "ready"
    /\ cls = "GlobMatcher"
    /\ path' = p
    /\ result' = <<GlobMatcher_matches(matcher[1], p)>>
    /\ UNCHANGED <<pc, cls, pattern, patterns, matcher, globset, error>>

\* result = globset.matches(p)
SetMatches(p) ==
    /\ pc = "ready"
    /\ cls = "GlobSet"
    /\ path' = p
    /\ result' = <<GlobSet_matches(globset[1], p)>>
    /\ UNCHANGED <<pc, cls, pattern, patterns, matcher, globset, error>>

Next ==
    \/ \E pat \in Patterns : NewGlobMatcher(pat)
    \/ \E pats \in PatternLists : NewGlobSet(pats)
    \/ \E p \in Paths : MatcherMatches(p)
    \/ \E p \in Paths : SetMatches(p)

Spec == Init /\ [][Next]_vars

----------------------------------------------------------------------------
(* What the claims are stated with *)

Marker == <<"*", "*">>

\* The 1-based positions of the '**' segments of a pattern
MarkerPositions(pat) ==
    LET segs == split(pat) IN { k \in 1..Len(segs) : segs[k] = Marker }

PrefixSuffix == <<"/", "*", "*", "/", "*">>

RECURSIVE Glob(_, _)
\* Shell globbing of one whole segment: '*' is any run of characters, '?'
\* is one character, any other character of the alphabet is itself.
Glob(seg, s) ==
    IF seg = <<>> THEN s = <<>>
    ELSE IF Head(seg) = "*"
    THEN \E k \in 0..Len(s) : Glob(Tail(seg), SubSeq(s, k + 1, Len(s)))
    ELSE /\ s # <<>>
         /\ (Head(seg) = "?" \/ Head(seg) = Head(s))
         /\ Glob(Tail(seg), Tail(s))

\* A pattern segment against a path segment: equality for a literal
\* segment, a whole-segment glob match for a wildcard segment
SegmentMatches(seg, s) ==
    IF \E k \in 1..Len(seg) : seg[k] \in {"*", "?"} THEN Glob(seg, s)
    ELSE seg = s

\* path = A/mid/B for a pattern with its only '**' at position w
Decomposes(pat, p) ==
    LET segs == split(pat)
        parts == split(p)
        w == CHOOSE k \in MarkerPositions(pat) : TRUE
        nB == Len(segs) - w
    IN  /\ Len(parts) >= (w - 1) + nB
        /\ \A k \in 1..(w - 1) : SegmentMatches(segs[k], parts[k])
        /\ \A k \in 1..nB :
               SegmentMatches(segs[w + k], parts[Len(parts) - nB + k])

\* A matches call on a GlobMatcher has returned or raised
MatcherCalled == cls = "GlobMatcher" /\ pc = "ready" /\ result # <<>>

\* A matches call on a GlobSet has returned or raised
SetCalled == cls = "GlobSet" /\ pc = "ready" /\ result # <<>>

RECURSIVE IsSubstring(_, _)
IsSubstring(sub, s) ==
    \/ startswith(s, sub)
    \/ (s # <<>> /\ IsSubstring(sub, Tail(s)))

\* The exception carries the string pat: as an argument or inside one
Carries(e, pat) == \E k \in 1..Len(e.args) : IsSubstring(pat, e.args[k])

\* The patterns of the list given to GlobSet that do not compile
Offending ==
    { k \in 1..Len(patterns) :
        /\ Cardinality(MarkerPositions(patterns[k])) >= 2
        /\ ~endswith(patterns[k], PrefixSuffix) }

----------------------------------------------------------------------------
(* C1: constructing a GlobMatcher from a pattern with two or more '**'     *)
(* segments always fails with the error and produces no matcher, also      *)
(* when the pattern ends with the segments '**' and '*'.                   *)
C1_TwoMarkersRejected ==
    (cls = "GlobMatcher" /\ Cardinality(MarkerPositions(pattern)) >= 2)
        => (pc = "failed" /\ matcher = <<>> /\ error = <<ValueError>>)

(* C2: for a pattern with exactly one '**' and a path A/mid/B whose A      *)
(* matches the segments before the '**' and whose B matches the segments   *)
(* after it, matches returns true.                                         *)
C2_DecompositionMatches ==
    (/\ MatcherCalled
     /\ Cardinality(MarkerPositions(pattern)) = 1
     /\ Decomposes(pattern, path))
        => result[1] = Return(TRUE)

(* C3: for a pattern that ends in '/**/*', matches(path) is true exactly   *)
(* when the path starts with the pattern without its trailing '**/*'.      *)
C3_PrefixIff ==
    (cls = "GlobMatcher" /\ endswith(pattern, PrefixSuffix))
        => /\ pc = "ready"
           /\ result # <<>> =>
                result[1] =
                    Return(LET n == Len(pattern) - 4
                           IN  /\ Len(path) >= n
                               /\ \A k \in 1..n : path[k] = pattern[k])

C3_Witness ==
    /\ MatcherCalled
    /\ pattern = <<"a", "/", "*", "*", "/", "*">>
    /\ path = <<"a", "/", "b", "/", "a">>
    /\ result = <<Return(TRUE)>>

(* C4: for a pattern without a '**' segment, matches(path) is true exactly *)
(* when the path has as many segments as the pattern and every pattern     *)
(* segment matches the path segment at its index; without any wildcard     *)
(* segment that is path = pattern.                                         *)
C4_NoMarkerExact ==
    (MatcherCalled /\ MarkerPositions(pattern) = {})
        => LET segs == split(pattern)
               parts == split(path)
           IN  /\ result[1] =
                     Return(/\ Len(parts) = Len(segs)
                            /\ \A k \in 1..Len(segs) :
                                   SegmentMatches(segs[k], parts[k]))
               /\ (\A k \in 1..Len(segs) : ~HasWildcardChar(segs[k]))
                     => result[1] = Return(path = pattern)

C4_Witness ==
    /\ MatcherCalled
    /\ pattern = <<"?", "/", "a">>
    /\ path = <<"b", "/", "a">>
    /\ result = <<Return(TRUE)>>

(* C5: GlobSet.matches(path) is true exactly when one of the matchers of   *)
(* the list is true for the path: false for the empty list, and the same   *)
(* for every reordering of the list.                                       *)
C5_AnyMatcher ==
    SetCalled
        => /\ result[1] =
                 Return(\E k \in 1..Len(patterns) :
                            GlobMatcher_matches(
                                GlobMatcher__init__(patterns[k]).obj,
                                path) = Return(TRUE))
           /\ \A f \in Permutations(1..Len(patterns)) :
                 LET reordered == [k \in 1..Len(patterns) |-> patterns[f[k]]]
                 IN  GlobSet_matches(GlobSet__init__(reordered).obj, path)
                         = result[1]

C5_Witness ==
    /\ SetCalled
    /\ patterns = << <<"*">>, <<"a", "/", "*", "*", "/", "*">> >>
    /\ path = <<"a", "/", "b">>
    /\ result = <<Return(TRUE)>>

C7_MatchesNeverRaises ==
    result # <<>> => (result[1].exc = "" /\ result[1].value \in BOOLEAN)

C7_Witness ==
    /\ MatcherCalled
    /\ pattern = <<"a", "/", "?", "/", "a">>
    /\ path = <<"a">>
    /\ result = <<Return(FALSE)>>

(* C8: once an object is constructed no step changes it, and a query that  *)
(* is repeated returns what it returned before.                            *)
C8_Immutable ==
    [][pc = "ready" =>
          /\ pc' = pc /\ cls' = cls
          /\ matcher' = matcher /\ globset' = globset
          /\ (result # <<>> /\ path' = path) => result' = result]_vars

C8_Witness ==
    /\ MatcherCalled
    /\ matcher[1].matches = "_match_with_list_parts"
    /\ matcher[1]._wildcard_index # <<>>
    /\ result = <<Return(TRUE)>>

(* C9: for a pattern in the general form with a '**' segment, a path with  *)
(* fewer segments than the pattern has segments other than '**' never      *)
(* matches.                                                                *)
C9_ShortPathNeverMatches ==
    (/\ MatcherCalled
     /\ ~endswith(pattern, PrefixSuffix)
     /\ MarkerPositions(pattern) # {}
     /\ Len(split(path)) < Len(split(pattern)) - 1)
        => result[1] = Return(FALSE)

(* C10: for a pattern that ends in '/**/*' the prefix strategy returns     *)
(* what the general segmented algorithm returns for the same pattern and   *)
(* path.                                                                   *)
C10_StrategiesAgree ==
    (/\ MatcherCalled
     /\ endswith(pattern, PrefixSuffix)
     /\ ~_to_parts_list(pattern).raised)
        => LET r == _to_parts_list(pattern)
               general == [matches |-> "_match_with_list_parts",
                           _pattern |-> <<>>,
                           _pattern_parts |-> r.parts,
                           _wildcard_index |-> r.wildcard_index]
           IN  result[1] = _match_with_list_parts(general, path)

====
